---- MODULE Spec2Model ----
(***************************************************************************)
(* Model of the asset server, src/game/assets/server/server.py.            *)
(*                                                                         *)
(* A string is a sequence of one-character strings, so that the character  *)
(* level behaviour of os.path.commonprefix and the segment level behaviour *)
(* of os.path.normpath are both computed and can disagree.                 *)
(*                                                                         *)
(* The filesystem is a function from absolute normalized paths to entries  *)
(* (a directory, or a file with its bytes).  Each request is handled by    *)
(* its own thread (Flask's development server is threaded), so a request   *)
(* is a slot with a position: "idle" (not yet sent), "l22" (get_file has   *)
(* passed the check of lines 19-21 and is about to run lines 22-24) and    *)
(* "done" (answered).  Lines 19-21 touch no shared state, so they are one  *)
(* step together with the arrival of the request.                          *)
(***************************************************************************)
EXTENDS Naturals, Sequences, FiniteSets, TLC

\* ------------------------------------------------------------------ bounds
\* Number of requests (threads) of a behaviour.
MaxReqs == 2
\* Longest raw path, in segments.
MaxSegs == 3
\* Longest request body, in bytes.
MaxLen == 1

\* ----------------------------------------------------------------- strings
Slash == "/"
Dot == <<".">>
DotDot == <<".", ".">>

\* the working directory of the process, "/d"
getcwd == <<"/", "d">>

\* s.startswith(p)
startswith(s, p) == Len(s) >= Len(p) /\ SubSeq(s, 1, Len(p)) = p

\* s.split('/')
RECURSIVE str_split(_)
str_split(s) ==
    IF \A i \in 1..Len(s) : s[i] # Slash
    THEN <<s>>
    ELSE LET i == CHOOSE k \in 1..Len(s) :
                      s[k] = Slash /\ \A j \in 1..(k - 1) : s[j] # Slash
         IN  <<SubSeq(s, 1, i - 1)>> \o str_split(SubSeq(s, i + 1, Len(s)))

\* '/'.join(comps)
RECURSIVE str_join(_)
str_join(comps) ==
    IF comps = <<>> THEN <<>>
    ELSE IF Len(comps) = 1 THEN comps[1]
    ELSE comps[1] \o <<Slash>> \o str_join(Tail(comps))

\* s.rstrip('/')
RECURSIVE rstrip(_)
rstrip(s) ==
    IF s # <<>> /\ s[Len(s)] = Slash THEN rstrip(SubSeq(s, 1, Len(s) - 1)) ELSE s

\* posixpath.join(a, b)
join(a, b) ==
    IF startswith(b, <<Slash>>) THEN b
    ELSE IF a = <<>> \/ a[Len(a)] = Slash THEN a \o b
    ELSE a \o <<Slash>> \o b

\* the loop of posixpath.normpath over the components
RECURSIVE normcomps(_, _, _)
normcomps(comps, new_comps, initial_slashes) ==
    IF comps = <<>> THEN new_comps
    ELSE LET comp == Head(comps)
             rest == Tail(comps)
         IN  IF comp = <<>> \/ comp = Dot
             THEN normcomps(rest, new_comps, initial_slashes)
             ELSE IF \/ comp # DotDot
                     \/ (initial_slashes = 0 /\ new_comps = <<>>)
                     \/ (new_comps # <<>> /\ new_comps[Len(new_comps)] = DotDot)
             THEN normcomps(rest, Append(new_comps, comp), initial_slashes)
             ELSE IF new_comps # <<>>
             THEN normcomps(rest, SubSeq(new_comps, 1, Len(new_comps) - 1),
                            initial_slashes)
             ELSE normcomps(rest, new_comps, initial_slashes)

\* posixpath.normpath(path)
normpath(path) ==
    IF path = <<>> THEN Dot
    ELSE LET initial_slashes ==
                 IF ~startswith(path, <<Slash>>) THEN 0
                 ELSE IF startswith(path, <<Slash, Slash>>)
                         /\ ~startswith(path, <<Slash, Slash, Slash>>)
                 THEN 2 ELSE 1
             comps == normcomps(str_split(path), <<>>, initial_slashes)
             p == [i \in 1..initial_slashes |-> Slash] \o str_join(comps)
         IN  IF p = <<>> THEN Dot ELSE p

\* posixpath.abspath(path)
abspath(path) ==
    IF startswith(path, <<Slash>>) THEN normpath(path)
    ELSE normpath(join(getcwd, path))

\* os.path.commonprefix([a, b]): the longest common prefix, character by
\* character
commonprefix(a, b) ==
    LET n == IF Len(a) < Len(b) THEN Len(a) ELSE Len(b)
        k == CHOOSE m \in 0..n :
                 /\ \A i \in 1..m : a[i] = b[i]
                 /\ (m < n => a[m + 1] # b[m + 1])
    IN  SubSeq(a, 1, k)

\* the index after the last '/' of p, minus one: p.rfind('/') + 1
rfind1(p) ==
    IF \A i \in 1..Len(p) : p[i] # Slash THEN 0
    ELSE CHOOSE k \in 1..Len(p) :
             p[k] = Slash /\ \A j \in (k + 1)..Len(p) : p[j] # Slash

\* posixpath.split(p), as the pair <<head, tail>>
split(p) ==
    LET i == rfind1(p)
        head == SubSeq(p, 1, i)
        tail == SubSeq(p, i + 1, Len(p))
    IN  IF head # <<>> /\ \E j \in 1..Len(head) : head[j] # Slash
        THEN <<rstrip(head), tail>>
        ELSE <<head, tail>>

\* ------------------------------------------------------------- the sandbox
\* UPLOAD_DIRECTORY = os.path.abspath("cooked_assets/"); the directory name
\* is abbreviated to "ca"
UPLOAD_DIRECTORY == abspath(<<"c", "a", "/">>)

\* lines 19-21 (the same text as lines 30-32): the candidate path and whether
\* the check lets it through
resolve(rawPath) ==
    LET path == abspath(join(UPLOAD_DIRECTORY, rawPath))
    IN  [path |-> path,
         ok |-> commonprefix(path, UPLOAD_DIRECTORY) = UPLOAD_DIRECTORY]

\* -------------------------------------------------------------- filesystem
Dir == [kind |-> "dir", data |-> <<>>]
File(content) == [kind |-> "file", data |-> content]

exists(f, p) == p \in DOMAIN f
isfile(f, p) == p \in DOMAIN f /\ f[p].kind = "file"
isdir(f, p) == p \in DOMAIN f /\ f[p].kind = "dir"

\* --------------------------------------------------------------- the world
ca == <<"c", "a">>
cae == <<"c", "a", "e">>
x == <<"x">>

\* the absolute path of the segments segs
AbsPath(segs) == <<Slash>> \o str_join(segs)

\* Segments a client puts in a raw path: "..", the name "cae" (as a sibling
\* of the root its name starts with the root's name) and the name "x".
SegNames == {DotDot, cae, x}

\* The raw paths of the model: 1 to MaxSegs segments, joined by '/'.
RawPaths ==
    {str_join(ss) : ss \in UNION {[1..n -> SegNames] : n \in 1..MaxSegs}}

Bytes == {0, 222}
\* The request bodies of the model: the empty body, a null byte, ...
Contents == UNION {[1..n -> Bytes] : n \in 0..MaxLen}

\* lines 8-9: at startup the root exists, and nothing else has to
FreshFs ==
    [p \in {<<Slash>>, AbsPath(<<<<"d">>>>), UPLOAD_DIRECTORY} |-> Dir]

\* A populated disk.  Below the root: the file x, the directory cae and the
\* file cae/x.  Beside the root: the directory /d/cae with a file x, and the
\* file /d/x.  Above: the file /x.
PopulatedFs ==
    LET d == <<"d">>
        files == [p \in {AbsPath(<<d, ca, x>>)} |-> File(<<222>>)]
                 @@ [p \in {AbsPath(<<d, ca, cae, x>>)} |-> File(<<>>)]
                 @@ [p \in {AbsPath(<<d, cae, x>>)} |-> File(<<222, 0>>)]
                 @@ [p \in {AbsPath(<<d, x>>)} |-> File(<<0, 0>>)]
                 @@ [p \in {AbsPath(<<x>>)} |-> File(<<0, 222>>)]
        dirs == [p \in {AbsPath(<<d, ca, cae>>), AbsPath(<<d, cae>>)} |-> Dir]
    IN  FreshFs @@ dirs @@ files

\* ------------------------------------------------------------------- state
VARIABLES
    fs,     \* the filesystem: absolute normalized path -> entry
    reqs    \* the requests: slot -> position, locals and response

vars == <<fs, reqs>>

Slots == 1..MaxReqs

\* A slot.  path is get_file's local `path` (the url argument, overwritten by
\* line 19); filename is the url argument of post_file, and in get_file the
\* local of line 22, which names the attachment; data is request.data;
\* status and body are the response.
Idle ==
    [pc |-> "idle", method |-> "-", path |-> <<>>, filename |-> <<>>,
     data |-> <<>>, status |-> 0, body |-> <<>>]

\* the disks the server may find when it starts
StartupFs == {FreshFs, PopulatedFs}

Init ==
    /\ fs \in StartupFs
    /\ reqs = [i \in Slots |-> Idle]

\* werkzeug's safe_join(directory, filename): None (here <<>>) for a filename
\* that would leave the directory
safe_join(directory, filename) ==
    LET fname == IF filename # <<>> THEN normpath(filename) ELSE filename
    IN  IF \/ startswith(fname, <<Slash>>)
           \/ fname = DotDot
           \/ startswith(fname, DotDot \o <<Slash>>)
        THEN <<>>
        ELSE join(directory, fname)

\* flask's send_from_directory(directory, filename, as_attachment=True) on
\* the filesystem f: NotFound (404) unless the joined path is a regular file,
\* and otherwise the file's bytes
send_from_directory(f, directory, filename) ==
    LET p == safe_join(directory, filename)
    IN  IF p # <<>> /\ isfile(f, p)
        THEN [status |-> 200, body |-> f[p].data]
        ELSE [status |-> 404, body |-> <<>>]

\* the values that line 19 can leave in get_file's `path`
Candidates == {resolve(rawPath).path : rawPath \in RawPaths}

\* line 22 for each of them, (directory, filename) = split(abspath(path)),
\* computed once
SplitOf == [path \in Candidates |-> split(abspath(path))]

\* lines 22-24 of get_file
get_file_send(f, path) ==
    LET dirfile == SplitOf[path]
    IN  send_from_directory(f, dirfile[1], dirfile[2])

\* post_file as it would be if the failing upload removed its target
post_file_unlink(f, filename, data) ==
    LET target == normpath(join(UPLOAD_DIRECTORY, filename))
    IN  [status |-> 500, body |-> <<>>,
         fs |-> [p \in DOMAIN f \ {target} |-> f[p]]]

\* post_file.  Line 30 reads the local `path` before anything is assigned to
\* it (the parameter is called `filename`): UnboundLocalError, which Flask
\* answers with 500.  Lines 31-40 never run, so the filesystem is left as f.
post_file(f, filename, data) ==
    [status |-> 500, body |-> <<>>, fs |-> f]

\* line 26: the converter of <filename> matches one segment, without '/'
MatchesFilename(rawPath) ==
    rawPath # <<>> /\ \A i \in 1..Len(rawPath) : rawPath[i] # Slash

\* line 15: the converter of <path:path> matches any non-empty text that
\* does not start with '/'
MatchesPath(rawPath) ==
    rawPath # <<>> /\ rawPath[1] # Slash

\* GET /assets/<rawPath>: lines 15-21
GetFile(i, rawPath) ==
    /\ reqs[i].pc = "idle"
    /\ MatchesPath(rawPath)
    /\ LET r == resolve(rawPath)
       IN  reqs' = [reqs EXCEPT ![i] =
               IF r.ok
               THEN [Idle EXCEPT !.pc = "l22", !.method = "GET",
                                 !.path = r.path]
               ELSE [Idle EXCEPT !.pc = "done", !.method = "GET",
                                 !.path = r.path, !.status = 400]]
    /\ UNCHANGED fs

\* GetSend as it would be if get_file had the os.makedirs(directory) of
\* line 34 after its line 22
GetSend_makedirs(i) ==
    /\ reqs[i].pc = "l22"
    /\ LET r == get_file_send(fs, reqs[i].path)
           directory == SplitOf[reqs[i].path][1]
       IN  /\ reqs' = [reqs EXCEPT ![i] =
                  [@ EXCEPT !.pc = "done",
                            !.filename = SplitOf[reqs[i].path][2],
                            !.status = r.status, !.body = r.body]]
           /\ fs' = [p \in DOMAIN fs \cup {directory} |->
                         IF p \in DOMAIN fs THEN fs[p] ELSE Dir]

\* GetSend as it would be if get_file served one download at a time and a
\* download waited for the others to leave lines 22-24
GetSend_wait(i) ==
    /\ \A j \in Slots \ {i} : reqs[j].pc # "l22"
    /\ reqs[i].pc = "l22"
    /\ LET r == get_file_send(fs, reqs[i].path)
       IN  reqs' = [reqs EXCEPT ![i] =
               [@ EXCEPT !.pc = "done",
                         !.filename = SplitOf[reqs[i].path][2],
                         !.status = r.status, !.body = r.body]]
    /\ UNCHANGED fs

\* lines 22-24 of get_file
GetSend(i) ==
    /\ reqs[i].pc = "l22"
    /\ LET r == get_file_send(fs, reqs[i].path)
       IN  reqs' = [reqs EXCEPT ![i] =
               [@ EXCEPT !.pc = "done",
                         !.filename = SplitOf[reqs[i].path][2],
                         !.status = r.status, !.body = r.body]]
    /\ UNCHANGED fs

\* POST /assets/<filename> with the body data: lines 26-40
PostFile(i, filename, data) ==
    /\ reqs[i].pc = "idle"
    /\ MatchesFilename(filename)
    /\ LET r == post_file(fs, filename, data)
       IN  /\ reqs' = [reqs EXCEPT ![i] =
                  [Idle EXCEPT !.pc = "done", !.method = "POST",
                               !.filename = filename, !.data = data,
                               !.status = r.status, !.body = r.body]]
           /\ fs' = r.fs

\* POST /assets/<rawPath> with a '/' in rawPath: the url matches the rule of
\* line 15 only, which does not allow POST; the router answers 405 and no
\* handler reads the body
MethodNotAllowed(i, rawPath) ==
    /\ reqs[i].pc = "idle"
    /\ MatchesPath(rawPath)
    /\ ~MatchesFilename(rawPath)
    /\ reqs' = [reqs EXCEPT ![i] =
           [Idle EXCEPT !.pc = "done", !.method = "POST",
                        !.filename = rawPath, !.status = 405]]
    /\ UNCHANGED fs

Next ==
    \E i \in Slots :
        \/ \E rawPath \in RawPaths : GetFile(i, rawPath)
        \/ GetSend(i)
        \/ \E rawPath \in RawPaths, data \in Contents :
               PostFile(i, rawPath, data)
        \/ \E rawPath \in RawPaths : MethodNotAllowed(i, rawPath)

Spec == Init /\ [][Next]_vars

\* Every request has a thread of its own (app.run, line 44) and the handlers
\* take no lock, so a handler that can run its next lines is scheduled.
FairSpec == Spec /\ \A i \in Slots : WF_vars(GetSend(i))

\* ------------------------------------------------ vocabulary of the claims
\* the segments of a normalized path
Segs(p) == SelectSeq(str_split(p), LAMBDA c : c # <<>>)

\* segment-wise: the segments of p start with exactly the segments of the root
InSandbox(p) ==
    LET r == Segs(UPLOAD_DIRECTORY)
    IN  Len(Segs(p)) >= Len(r) /\ SubSeq(Segs(p), 1, Len(r)) = r

\* the raw path joined to the root and normalized
Candidate(rawPath) == normpath(join(UPLOAD_DIRECTORY, rawPath))

\* the location a request is about: get_file keeps it in path, an upload
\* names it by its url
Target(r) == IF r.method = "GET" THEN r.path ELSE Candidate(r.filename)

\* the parent directory of a path
Parent(p) == split(p)[1]

RECURSIVE NoFileAbove(_, _)
NoFileAbove(f, p) ==
    \/ Parent(p) = p
    \/ ~isfile(f, Parent(p)) /\ NoFileAbove(f, Parent(p))

\* an in-sandbox location below the root where a file can be stored: it is
\* not a directory and no file is in the way of its parent directories
Writable(f, p) ==
    /\ InSandbox(p) /\ p # UPLOAD_DIRECTORY
    /\ ~isdir(f, p)
    /\ NoFileAbove(f, p)

\* the step answers the upload of slot i
PostCompletes(i) ==
    reqs[i].pc = "idle" /\ reqs'[i].pc = "done" /\ reqs'[i].method = "POST"

\* the step answers the download of slot i
GetCompletes(i) ==
    reqs[i].pc # "done" /\ reqs'[i].pc = "done" /\ reqs'[i].method = "GET"

SiblingX == AbsPath(<<<<"d">>, cae, x>>)
AboveX == AbsPath(<<x>>)

\* ------------------------------------------------------------------ claims

\* C1: the resolver never lets a path outside the root through: every
\* download is either rejected with the sandbox error (400) or works on a
\* path whose segments start with the segments of the root; the download of
\* ../../x is rejected.
C1_ResolveStaysInRoot ==
    \A i \in Slots :
        reqs[i].method = "GET" =>
            /\ (reqs[i].pc = "done" /\ reqs[i].status = 400)
               \/ InSandbox(reqs[i].path)
            /\ reqs[i].path = AboveX =>
                   reqs[i].pc = "done" /\ reqs[i].status = 400

\* C2: a request, download or upload, for the sibling /d/cae/x of the root
\* /d/ca is rejected with the sandbox error (400).
C2_SiblingRejected ==
    \A i \in Slots :
        reqs[i].pc # "idle" /\ Target(reqs[i]) = SiblingX =>
            reqs[i].pc = "done" /\ reqs[i].status = 400

\* C3: no step creates or changes an entry outside the root, and no download
\* answers with the content of a file outside the root.
C3_NothingOutsideTouched ==
    [][/\ \A p \in DOMAIN fs' :
              ~InSandbox(p) => p \in DOMAIN fs /\ fs'[p] = fs[p]
       /\ \A i \in Slots :
              GetCompletes(i) /\ reqs'[i].status = 200 =>
                  InSandbox(reqs'[i].path)]_vars

\* C4: round trip: an upload of content to a writable in-sandbox location p
\* is answered 201, and the read of p that follows it is answered 200 with
\* exactly content.
C4_RoundTrip ==
    [][\A i \in Slots :
           PostCompletes(i) /\ Writable(fs, Target(reqs'[i])) =>
               /\ reqs'[i].status = 201
               /\ get_file_send(fs', Target(reqs'[i]))
                      = [status |-> 200, body |-> reqs'[i].data]]_vars

\* C5: a second upload to a writable in-sandbox location already uploaded to
\* succeeds like the first (the existing parent directory is no error) and
\* leaves its own content there.
C5_SecondWriteSucceeds ==
    [][\A i, j \in Slots :
           /\ i # j
           /\ reqs[j].pc = "done" /\ reqs[j].method = "POST"
           /\ PostCompletes(i)
           /\ Target(reqs'[i]) = Target(reqs[j])
           /\ Writable(fs, Target(reqs[j]))
           => /\ reqs[j].status = 201
              /\ reqs'[i].status = 201
              /\ isfile(fs', Target(reqs'[i]))
              /\ fs'[Target(reqs'[i])].data = reqs'[i].data]_vars

\* C7: two uploads to distinct locations below the same in-sandbox
\* directory, which no startup disk has, are both answered 201 and both
\* files are there with their contents.
C7_SiblingWritersSucceed ==
    \A i, j \in Slots :
        /\ i # j
        /\ reqs[i].pc = "done" /\ reqs[i].method = "POST"
        /\ reqs[j].pc = "done" /\ reqs[j].method = "POST"
        /\ Target(reqs[i]) # Target(reqs[j])
        /\ Parent(Target(reqs[i])) = Parent(Target(reqs[j]))
        /\ InSandbox(Parent(Target(reqs[i])))
        /\ \A f \in StartupFs : ~exists(f, Parent(Target(reqs[i])))
        => /\ reqs[i].status = 201
           /\ isfile(fs, Target(reqs[i]))
           /\ fs[Target(reqs[i])].data = reqs[i].data

\* C8: when the second of two uploads of different contents to one location
\* is answered, the location holds exactly the content of that upload.
C8_LastWriterWins ==
    [][\A i, j \in Slots :
           /\ i # j
           /\ reqs[j].pc = "done" /\ reqs[j].method = "POST"
           /\ PostCompletes(i)
           /\ Target(reqs'[i]) = Target(reqs[j])
           /\ reqs'[i].data # reqs[j].data
           /\ Writable(fs, Target(reqs[j]))
           => /\ isfile(fs', Target(reqs'[i]))
              /\ fs'[Target(reqs'[i])].data = reqs'[i].data]_vars

\* C9: a download of an in-sandbox path where nothing exists is answered
\* 404, and a download of an existing in-sandbox directory is answered with
\* another outcome, which is not a success either.
C9_MissingAndDirectoryDiffer ==
    [][\A i \in Slots :
           GetCompletes(i) /\ reqs[i].pc = "l22" /\ InSandbox(reqs[i].path) =>
               /\ ~exists(fs, reqs[i].path) => reqs'[i].status = 404
               /\ isdir(fs, reqs[i].path) =>
                      reqs'[i].status \notin {200, 404}]_vars

\* C10: every request, download or upload, for a location outside the root
\* is answered 400.
C10_OutsideIs400 ==
    \A i \in Slots :
        reqs[i].pc # "idle" /\ ~InSandbox(Target(reqs[i])) =>
            reqs[i].pc = "done" /\ reqs[i].status = 400

\* C11: an upload whose target is an existing in-sandbox directory (the root
\* included) is answered with a failure that tells its reason: it is no
\* success, and it is not the answer that an upload to a writable location
\* gets.
C11_WriteErrorIsExplicit ==
    \A i, j \in Slots :
        /\ reqs[i].pc = "done" /\ reqs[i].method = "POST"
        /\ InSandbox(Target(reqs[i])) /\ isdir(fs, Target(reqs[i]))
        => /\ reqs[i].status \notin {200, 201}
           /\ (/\ reqs[j].pc = "done" /\ reqs[j].method = "POST"
               /\ Writable(fs, Target(reqs[j])))
              => <<reqs[i].status, reqs[i].body>>
                     # <<reqs[j].status, reqs[j].body>>

\* C12: the upload operation accepts every path the download operation
\* accepts (no upload is turned away by the router), and an upload answered
\* 201 has stored its body at exactly the root joined with its path.
C12_UploadMirrorsPath ==
    [][\A i \in Slots :
           PostCompletes(i) /\ InSandbox(Target(reqs'[i])) =>
               /\ reqs'[i].status # 405
               /\ reqs'[i].status = 201 =>
                      /\ isfile(fs', join(UPLOAD_DIRECTORY, reqs'[i].filename))
                      /\ fs'[join(UPLOAD_DIRECTORY, reqs'[i].filename)].data
                             = reqs'[i].data]_vars

\* C13: a download whose raw path normalizes to the root itself is let
\* through by the resolver (never answered 400), and is then answered with
\* the directory outcome: no success, nothing served, and not the 404 of a
\* missing path.
C13_RootResolvesNotServed ==
    \A i \in Slots :
        reqs[i].method = "GET" /\ reqs[i].path = UPLOAD_DIRECTORY =>
            /\ reqs[i].status # 400
            /\ reqs[i].pc = "done" =>
                   reqs[i].status \notin {200, 404} /\ reqs[i].body = <<>>

AssetX == AbsPath(<<<<"d">>, ca, x>>)

C15_OnlyAcceptedUploadsWrite ==
    [][\A i \in Slots :
           /\ reqs'[i] # reqs[i]
           /\ \/ reqs'[i].method = "GET"
              \/ PostCompletes(i) /\ ~InSandbox(Target(reqs'[i]))
           => fs' = fs]_vars

\* C15, witness: on the populated disk a download has been served, another
\* has been turned away, and an upload for a location outside the root has
\* been answered.
C15_Witness ==
    /\ fs = PopulatedFs
    /\ \E i, j \in Slots :
           /\ reqs[i].pc = "done" /\ reqs[i].method = "GET"
           /\ reqs[i].status \in {200, 400}
           /\ reqs[j].pc = "done" /\ reqs[j].method = "POST"
           /\ ~InSandbox(Target(reqs[j]))

\* C16: every request that is being handled is eventually answered, whatever
\* the other requests do.
C16_EveryRequestCompletes ==
    \A i \in Slots : (reqs[i].pc = "l22") ~> (reqs[i].pc = "done")

\* C16, witness: two downloads were in lines 22-24 together; one has been
\* answered and the other is still there.
C16_Witness ==
    \E i, j \in Slots :
        /\ reqs[i].pc = "done" /\ reqs[i].method = "GET"
        /\ reqs[i].status \in {200, 404}
        /\ reqs[j].pc = "l22"

====
